---- MODULE Spec2Model ----
(***************************************************************************)
(* gitstat (src/main.go): walks a base directory for git repositories,     *)
(* processes them in concurrent batches, and writes three CSV reports       *)
(* (detail rows, daily summary, yearly summary).                            *)
(*                                                                          *)
(* Strings the program computes with (dates, counts) are sequences of      *)
(* ASCII codes, so that formatting, parsing and lexicographic sorting are   *)
(* computed as Go computes them.  Names that the program only copies       *)
(* (path segments, branch names) are TLA+ strings.                          *)
(***************************************************************************)
EXTENDS Integers, Sequences, FiniteSets, Bags, TLC

VARIABLES
    \* ---- main / findGitRepos / processReposBatch (specification Spec)
    pcMain,      \* position of main
    exitCode,    \* process exit status, -1 while running
    batchSize,   \* the -batch flag
    walkIdx,     \* number of directory entries the walk has visited
    walkErr,     \* error returned by filepath.WalkDir ("nil" when none)
    repos,       \* findGitRepos: the repos slice
    i,           \* processReposBatch: loop variable i
    spawned,     \* processReposBatch: goroutines started in the current chunk
    wg,          \* sync.WaitGroup counter
    mutex,       \* sync.Mutex: 0 when free, else the task holding it
    results,     \* processReposBatch: the shared results slice
    taskPc,      \* position of each goroutine (by index into repos)
    taskChunk,   \* chunk (loop iteration) in which each goroutine was started
    taskOut,     \* what processRepo returned to each goroutine
    taskTmp,     \* the value of results read by a goroutine's append
    mainResults, \* main: the slice processReposBatch returned
    absOK,       \* main: whether filepath.Abs succeeded
    files,       \* the three output files
    \* ---- the report writers on their own (specification SpecAgg)
    aggPc, aggIn, aggPerm, aggOut, aggPermOut,
    \* ---- processRepo on its own (specification SpecRepo)
    prPc,        \* position of processRepo
    prPath,      \* the argument repoPath
    prRepo,      \* the repository go-git finds at repoPath
    prIdx,       \* branches.ForEach: index of the next reference
    prResults,   \* the local results slice
    prLogged,    \* indexes of the references whose commits were traversed
    prOut        \* what processRepo returned

vars == <<pcMain, exitCode, batchSize, walkIdx, walkErr, repos, i, spawned, wg,
          mutex, results, taskPc, taskChunk, taskOut, taskTmp, mainResults,
          absOK, files, aggPc, aggIn, aggPerm, aggOut, aggPermOut,
          prPc, prPath, prRepo, prIdx, prResults, prLogged, prOut>>

mainVars == <<pcMain, exitCode, batchSize, walkIdx, walkErr, repos, i, spawned,
              wg, mutex, results, taskPc, taskChunk, taskOut, taskTmp,
              mainResults, absOK, files>>

aggVars == <<aggPc, aggIn, aggPerm, aggOut, aggPermOut>>

prVars == <<prPc, prPath, prRepo, prIdx, prResults, prLogged, prOut>>

----------------------------------------------------------------------------
(* Bounds of the model *)

\* directory entries below the base directory that the walk can visit
MaxEntries == 3

\* references of a repository handed to processRepo in SpecRepo
MaxRefs == 3

\* BranchHistograms handed to the report writers in SpecAgg
MaxHist == 3

----------------------------------------------------------------------------
(* Generic helpers *)

Min(a, b) == IF a < b THEN a ELSE b

Range(s) == {s[k] : k \in DOMAIN s}

RECURSIVE SumSeq(_)
SumSeq(s) == IF s = <<>> THEN 0 ELSE s[1] + SumSeq(Tail(s))

RECURSIVE Flatten(_)
Flatten(ss) == IF ss = <<>> THEN <<>> ELSE ss[1] \o Flatten(Tail(ss))

SeqToBag(s) == [x \in Range(s) |-> Cardinality({k \in DOMAIN s : s[k] = x})]

Perms(s) ==
    {[k \in DOMAIN s |-> s[p[k]]] :
        p \in {q \in [DOMAIN s -> DOMAIN s] : \A a, b \in DOMAIN s : a # b => q[a] # q[b]}}

----------------------------------------------------------------------------
(* Go library functions the program calls, over ASCII-code strings *)

Dash == 45
Digit(d) == 48 + d
IsDigit(s, k) == k <= Len(s) /\ s[k] \in 48..57

\* decimal digits of n >= 0, zero-padded to at least width characters
RECURSIVE Pad(_, _)
Pad(n, width) ==
    IF n < 10 /\ width <= 1 THEN <<Digit(n)>>
    ELSE Pad(n \div 10, width - 1) \o <<Digit(n % 10)>>

\* time.appendInt / strconv.Itoa: sign, then the digits
AppendInt(x, width) == IF x < 0 THEN <<Dash>> \o Pad(-x, width) ELSE Pad(x, width)

\* strconv.Itoa(count), main.go:257, 325, 326, 383
Itoa(n) == AppendInt(n, 1)

\* value of a string of decimal digits (the inverse the CSV reader applies)
RECURSIVE DigitsVal(_)
DigitsVal(s) ==
    IF s = <<>> THEN 0 ELSE 10 * DigitsVal(SubSeq(s, 1, Len(s) - 1)) + (s[Len(s)] - 48)

Atoi(s) == IF s # <<>> /\ s[1] = Dash THEN -DigitsVal(Tail(s)) ELSE DigitsVal(s)

\* c.Author.When.Format("2006-01-02"), main.go:192
Format(t) ==
    AppendInt(t.year, 4) \o <<Dash>> \o AppendInt(t.month, 2) \o <<Dash>> \o AppendInt(t.day, 2)

IsLeap(y) == y % 4 = 0 /\ (y % 100 # 0 \/ y % 400 = 0)

DaysIn(m, y) ==
    IF m = 2 THEN (IF IsLeap(y) THEN 29 ELSE 28)
    ELSE IF m \in {4, 6, 9, 11} THEN 30 ELSE 31

ParseFail == [ok |-> FALSE, year |-> 0]

\* time.Parse("2006-01-02", dateStr), main.go:294: a four-digit year, "-", a
\* two-digit month, "-", a two-digit day, nothing after it, and a day that exists
Parse(s) ==
    IF Len(s) < 4 \/ ~(\A k \in 1..4 : IsDigit(s, k)) THEN ParseFail
    ELSE IF ~(Len(s) >= 5 /\ s[5] = Dash) THEN ParseFail
    ELSE IF ~(IsDigit(s, 6) /\ IsDigit(s, 7)) THEN ParseFail
    ELSE IF ~(Len(s) >= 8 /\ s[8] = Dash) THEN ParseFail
    ELSE IF ~(IsDigit(s, 9) /\ IsDigit(s, 10)) THEN ParseFail
    ELSE IF Len(s) > 10 THEN ParseFail
    ELSE LET y == DigitsVal(SubSeq(s, 1, 4))
             m == DigitsVal(SubSeq(s, 6, 7))
             d == DigitsVal(SubSeq(s, 9, 10))
         IN  IF m < 1 \/ m > 12 \/ d < 1 \/ d > DaysIn(m, y) THEN ParseFail
             ELSE [ok |-> TRUE, year |-> y]

\* Go's string comparison a < b (bytewise lexicographic)
StrLess(a, b) ==
    \E k \in 1..(Min(Len(a), Len(b)) + 1) :
        /\ \A j \in 1..(k - 1) : a[j] = b[j]
        /\ \/ k > Len(a) /\ k <= Len(b)
           \/ k <= Len(a) /\ k <= Len(b) /\ a[k] < b[k]

\* sort.Strings(dates), main.go:249: the keys of a map, in ascending order
RECURSIVE SortStrings(_)
SortStrings(S) ==
    IF S = {} THEN <<>>
    ELSE LET m == CHOOSE x \in S : \A y \in S \ {x} : StrLess(x, y)
         IN  <<m>> \o SortStrings(S \ {m})

\* sort.Slice by Year, main.go:318-320: the keys of a map, in ascending order
RECURSIVE SortInts(_)
SortInts(S) ==
    IF S = {} THEN <<>>
    ELSE LET m == CHOOSE x \in S : \A y \in S : x <= y
         IN  <<m>> \o SortInts(S \ {m})

----------------------------------------------------------------------------
(* Paths *)

Seg(stem, ext) == [stem |-> stem, ext |-> ext]

\* filepath.Base and filepath.Dir on a path held as its sequence of segments
Base(path) == path[Len(path)]
Dir(path) == SubSeq(path, 1, Len(path) - 1)

\* strings.HasSuffix(path, ".git"), main.go:96
HasGitSuffix(path) == Base(path).ext = ".git"

DotGit == Seg("", ".git")

\* the path of the k-th directory entry of the walk: odd entries are bare
\* repositories base/d<k>/r.git, even ones work trees base/d<k>/w/.git, so
\* that distinct paths derive the same display name
EntryPath(k) ==
    IF k % 2 = 1
    THEN <<Seg("base", ""), Seg("d" \o ToString(k), ""), Seg("r", ".git")>>
    ELSE <<Seg("base", ""), Seg("d" \o ToString(k), ""), Seg("w", ""), DotGit>>

\* main.go:150-156
repoNameOf(repoPath) ==
    IF Base(repoPath) = DotGit THEN Base(Dir(repoPath)) ELSE Base(repoPath)

----------------------------------------------------------------------------
(* Repositories as go-git presents them to processRepo *)

Time(y, m, d) == [year |-> y, month |-> m, day |-> d]

\* author dates of the commits in the modelled repositories; the last one is a
\* commit whose author timestamp lies in the year 10000 (253402300800 seconds)
T1 == Time(2023, 12, 31)
T2 == Time(2024, 1, 1)
T3 == Time(2024, 1, 2)
TFar == Time(10000, 1, 1)

\* a reference: its name (namespace and short name), its type, whether
\* repo.Log succeeds from it, the commits the iterator yields, and how the
\* iteration ends ("none": normally, "error": ForEach returns an error,
\* "panic": the iterator panics)
Ref(ns, short, type, logOK, commits, stop) ==
    [ns |-> ns, short |-> short, type |-> type, logOK |-> logOK,
     commits |-> commits, stop |-> stop]

Repo(openOK, refsOK, refs, iterOK, head) ==
    [openOK |-> openOK, refsOK |-> refsOK, refs |-> refs, iterOK |-> iterOK,
     head |-> head]

HeadRef(commits) == Ref("", "HEAD", "symbolic", TRUE, commits, "none")

\* a path that is no valid repository: git.PlainOpen fails
RepoBroken == Repo(FALSE, TRUE, <<>>, TRUE, HeadRef(<<>>))

\* a repository whose references cannot be enumerated
RepoNoRefs == Repo(TRUE, FALSE, <<>>, TRUE, HeadRef(<<>>))

\* branch main with two commits on 2024-01-01 and one on 2024-01-02, a tag
RepoA ==
    Repo(TRUE, TRUE,
         <<HeadRef(<<T2, T2, T3>>),
           Ref("heads", "main", "hash", TRUE, <<T2, T2, T3>>, "none"),
           Ref("tags", "v1", "hash", TRUE, <<T2>>, "none")>>,
         TRUE, HeadRef(<<T2, T2, T3>>))

\* branch main with one commit on 2024-01-01, branch dev with one commit in
\* 2023 and one dated in the year 10000, a branch whose log cannot be started,
\* and a branch whose iterator fails before it yields a commit
RepoB ==
    Repo(TRUE, TRUE,
         <<Ref("heads", "dev", "hash", TRUE, <<TFar, T1>>, "none"),
           Ref("heads", "gone", "hash", FALSE, <<>>, "none"),
           Ref("heads", "main", "hash", TRUE, <<T2>>, "none"),
           Ref("heads", "void", "hash", TRUE, <<>>, "error")>>,
         TRUE, HeadRef(<<T2>>))

RepoWorlds == {RepoBroken, RepoNoRefs, RepoA, RepoB}

----------------------------------------------------------------------------
(* processRepo, main.go:144-219 *)

\* ref.Name().IsBranch(), main.go:168
IsBranch(ref) == ref.ns = "heads"

\* repo.Log(&git.LogOptions{From: ref.Hash()}), main.go:176: the hash of a
\* symbolic reference is the zero hash, from which go-git logs HEAD
LogOf(repo, ref) == IF ref.type = "symbolic" THEN repo.head ELSE ref

\* commitsByDate[dateStr]++, main.go:193
Inc(m, d) == IF d \in DOMAIN m THEN [m EXCEPT ![d] = @ + 1] ELSE m @@ (d :> 1)

\* commitIter.ForEach, main.go:191-195, over the commits the iterator yields
RECURSIVE CountCommits(_, _)
CountCommits(m, commits) ==
    IF commits = <<>> THEN m
    ELSE CountCommits(Inc(m, Format(commits[1])), Tail(commits))

RepoBranchCommits(repoName, branchName, commitsByDate) ==
    [RepoName |-> repoName, BranchName |-> branchName, CommitsByDate |-> commitsByDate]

\* faulty variant of branchResults: the histogram is appended without the
\* test len(commitsByDate) > 0
branchResultsKeepEmpty(repo, repoName, ref) ==
    IF ~IsBranch(ref) THEN <<>>
    ELSE LET log == LogOf(repo, ref)
         IN  IF ~log.logOK THEN <<>>
             ELSE <<RepoBranchCommits(repoName, ref.short,
                                      CountCommits(<<>>, log.commits))>>

\* faulty variant of branchResults: the counts of a traversal that was
\* interrupted are thrown away
branchResultsDropInterrupted(repo, repoName, ref) ==
    IF ~IsBranch(ref) THEN <<>>
    ELSE LET log == LogOf(repo, ref)
         IN  IF ~log.logOK \/ log.stop # "none" THEN <<>>
             ELSE LET commitsByDate == CountCommits(<<>>, log.commits)
                  IN  IF Cardinality(DOMAIN commitsByDate) > 0
                      THEN <<RepoBranchCommits(repoName, ref.short, commitsByDate)>>
                      ELSE <<>>

\* the callback of branches.ForEach for one reference, main.go:166-212: what
\* it appends to results
branchResults(repo, repoName, ref) ==
    IF ~IsBranch(ref) THEN <<>>
    ELSE LET log == LogOf(repo, ref)
         IN  IF ~log.logOK THEN <<>>
             ELSE LET commitsByDate == CountCommits(<<>>, log.commits)
                  IN  IF Cardinality(DOMAIN commitsByDate) > 0
                      THEN <<RepoBranchCommits(repoName, ref.short, commitsByDate)>>
                      ELSE <<>>

Returned(err, infos) == [err |-> err, infos |-> infos]

processRepo(repoPath, repo) ==
    IF ~repo.openOK THEN Returned("failed to open repository", <<>>)
    ELSE IF ~repo.refsOK THEN Returned("failed to get references", <<>>)
    ELSE IF ~repo.iterOK THEN Returned("failed to process branches", <<>>)
    ELSE Returned("nil",
                  Flatten([k \in DOMAIN repo.refs |->
                              branchResults(repo, repoNameOf(repoPath), repo.refs[k])]))

----------------------------------------------------------------------------
(* The report writers: the rows each one writes for a results slice *)

\* writeCommitInfoCSV, main.go:243-263
commitInfoRows(res) ==
    Flatten([k \in DOMAIN res |->
        LET dates == SortStrings(DOMAIN res[k].CommitsByDate)
        IN  [j \in DOMAIN dates |->
                <<dates[j], res[k].RepoName, res[k].BranchName,
                  Itoa(res[k].CommitsByDate[dates[j]])>>]])

\* faulty variant of dailyTotals: commitsByDate[date] = count, the count of the
\* last histogram holding the date replaces the total
dailyTotalsOverwrite(res) ==
    [d \in UNION {DOMAIN res[k].CommitsByDate : k \in DOMAIN res} |->
        LET ks == {k \in DOMAIN res : d \in DOMAIN res[k].CommitsByDate}
            last == CHOOSE k \in ks : \A j \in ks : j <= k
        IN  res[last].CommitsByDate[d]]

\* main.go:358-363: commitsByDate[date] += count over all results
dailyTotals(res) ==
    [d \in UNION {DOMAIN res[k].CommitsByDate : k \in DOMAIN res} |->
        SumSeq([k \in DOMAIN res |->
                   IF d \in DOMAIN res[k].CommitsByDate
                   THEN res[k].CommitsByDate[d] ELSE 0])]

\* faulty variant of summaryRows: the rows are not sorted by Date and come out
\* in another order of the map keys, here the descending one
summaryRowsUnsorted(res) ==
    LET commitsByDate == dailyTotals(res)
        dates == SortStrings(DOMAIN commitsByDate)
        n == Len(dates)
    IN  [j \in DOMAIN dates |-> <<dates[n + 1 - j], Itoa(commitsByDate[dates[n + 1 - j]])>>]

\* writeSummaryCSV, main.go:357-388
summaryRows(res) ==
    LET commitsByDate == dailyTotals(res)
        dates == SortStrings(DOMAIN commitsByDate)
    IN  [j \in DOMAIN dates |-> <<dates[j], Itoa(commitsByDate[dates[j]])>>]

\* faulty variant of yearlyTotals: without the continue, a date time.Parse
\* rejects is counted under the year of the zero time, 1
yearlyTotalsNoSkip(res) ==
    LET all(k) == DOMAIN res[k].CommitsByDate
        yearOf(d) == IF Parse(d).ok THEN Parse(d).year ELSE 1
        years == {yearOf(d) : d \in UNION {all(k) : k \in DOMAIN res}}
    IN  [y \in years |->
            SumSeq([k \in DOMAIN res |->
                SumSeq([j \in DOMAIN SortStrings(all(k)) |->
                    LET d == SortStrings(all(k))[j]
                    IN  IF yearOf(d) = y THEN res[k].CommitsByDate[d] ELSE 0])])]

\* main.go:290-302: commitsByYear[commitDate.Year()] += count, skipping the
\* dates time.Parse rejects
yearlyTotals(res) ==
    LET parsed(k) == {d \in DOMAIN res[k].CommitsByDate : Parse(d).ok}
        years == {Parse(d).year : d \in UNION {parsed(k) : k \in DOMAIN res}}
    IN  [y \in years |->
            SumSeq([k \in DOMAIN res |->
                SumSeq([j \in DOMAIN SortStrings(parsed(k)) |->
                    LET d == SortStrings(parsed(k))[j]
                    IN  IF Parse(d).year = y THEN res[k].CommitsByDate[d] ELSE 0])])]

\* writeYearlySummaryCSV, main.go:289-331
yearlyRows(res) ==
    LET commitsByYear == yearlyTotals(res)
        years == SortInts(DOMAIN commitsByYear)
    IN  [j \in DOMAIN years |-> <<Itoa(years[j]), Itoa(commitsByYear[years[j]])>>]

\* the sum of the CommitCount column of a sequence of rows
CountSum(rows) == SumSeq([j \in DOMAIN rows |-> Atoi(rows[j][Len(rows[j])])])

----------------------------------------------------------------------------
(* Spec: one run of main, main.go:35-79 *)

\* values of the -batch flag, main.go:41: the scheduler is run with 1, 3 and 50,
\* with 2 (two full chunks of three or four repositories), and with the
\* values flag.Int accepts that are not positive
BatchSizes == {-1, 0, 1, 2, 3, 50}

Tasks == 1..MaxEntries

Files == {"info", "summary", "yearly"}

NoFile == [status |-> "none", rows |-> <<>>]

AggIdle ==
    /\ aggPc = "off" /\ aggIn = <<>> /\ aggPerm = <<>>
    /\ aggOut = <<>> /\ aggPermOut = <<>>

PrIdle ==
    /\ prPc = "off" /\ prPath = <<>> /\ prRepo = <<>> /\ prIdx = 0
    /\ prResults = <<>> /\ prLogged = {} /\ prOut = <<>>

Init ==
    /\ pcMain = "walk"
    /\ exitCode = -1
    /\ batchSize \in BatchSizes
    /\ walkIdx = 0
    /\ walkErr = "nil"
    /\ repos = <<>>
    /\ i = 0
    /\ spawned = 0
    /\ wg = 0
    /\ mutex = 0
    /\ results = <<>>
    /\ taskPc = [t \in Tasks |-> "idle"]
    /\ taskChunk = [t \in Tasks |-> -1]
    /\ taskOut = [t \in Tasks |-> Returned("nil", <<>>)]
    /\ taskTmp = [t \in Tasks |-> <<>>]
    /\ mainResults = [returned |-> FALSE, slice |-> <<>>]
    /\ absOK = FALSE
    /\ files = [f \in Files |-> NoFile]
    /\ AggIdle
    /\ PrIdle

(* findGitRepos, main.go:82-104 *)

\* what the walk finds at a path: whether Lstat succeeds (asked of the root
\* only), whether it is a directory, whether ReadDir succeeds on it, and
\* whether it holds the files config and HEAD
Entry(path, lstatOK, isDir, readable, config, head) ==
    [path |-> path, lstatOK |-> lstatOK, isDir |-> isDir, readable |-> readable,
     config |-> config, head |-> head]

BasePath == <<Seg("base", "")>>

\* the base directory: missing, unreadable, or a directory
RootEntries ==
    {Entry(BasePath, FALSE, FALSE, FALSE, FALSE, FALSE),
     Entry(BasePath, TRUE, TRUE, FALSE, FALSE, FALSE),
     Entry(BasePath, TRUE, TRUE, TRUE, FALSE, FALSE)}

\* the k-th entry below it: a repository, a file of that name, a directory
\* without HEAD, a directory with both files whose name lacks the suffix,
\* and a directory that cannot be read (permission denied)
EntriesAt(k) ==
    {Entry(EntryPath(k), TRUE, TRUE, TRUE, TRUE, TRUE),
     Entry(EntryPath(k), TRUE, FALSE, FALSE, FALSE, FALSE),
     Entry(EntryPath(k), TRUE, TRUE, TRUE, TRUE, FALSE),
     Entry(Dir(EntryPath(k)), TRUE, TRUE, TRUE, TRUE, TRUE),
     Entry(EntryPath(k), TRUE, TRUE, FALSE, FALSE, FALSE)}

\* the callback given to filepath.WalkDir, main.go:85-101
walkFn(found, d, err) ==
    IF err # "nil" THEN [ret |-> err, repos |-> found]
    ELSE IF d.isDir /\ d.config /\ d.head /\ HasGitSuffix(d.path)
         THEN [ret |-> "nil", repos |-> Append(found, d.path)]
         ELSE [ret |-> "nil", repos |-> found]

\* filepath.WalkDir at one path: the callback is called with the Lstat error of
\* the root, else with the entry, and once more with the error of ReadDir when a
\* directory cannot be read; the error it returns ends the walk
walkVisit(found, d, lstatErr, readErr) ==
    IF ~d.lstatOK THEN walkFn(found, d, lstatErr)
    ELSE LET first == walkFn(found, d, "nil")
         IN  IF first.ret = "nil" /\ d.isDir /\ ~d.readable
             THEN walkFn(first.repos, d, readErr)
             ELSE first

RootErrs == {"lstat base", "readdir base"}
EntryErr == "readdir entry"

walkStep(d, lstatErr, readErr) ==
    LET r == walkVisit(repos, d, lstatErr, readErr)
    IN  /\ repos' = r.repos
        /\ walkErr' = r.ret
        /\ walkIdx' = walkIdx + 1
        /\ pcMain' = IF r.ret # "nil" \/ walkIdx = MaxEntries THEN "walked" ELSE "walk"
        /\ UNCHANGED <<exitCode, batchSize, i, spawned, wg, mutex, results, taskPc,
                       taskChunk, taskOut, taskTmp, mainResults, absOK, files>>
        /\ UNCHANGED <<aggVars, prVars>>

walkRoot ==
    /\ pcMain = "walk"
    /\ walkIdx = 0
    /\ \E d \in RootEntries : walkStep(d, "lstat base", "readdir base")

walkEntry ==
    /\ pcMain = "walk"
    /\ walkIdx \in 1..MaxEntries
    /\ \E d \in EntriesAt(walkIdx) : walkStep(d, "lstat entry", EntryErr)

(* main, main.go:44-79 *)

\* if err != nil { log.Error()...; os.Exit(1) }, main.go:46-49, 58-61, 64-76
mainFail ==
    /\ pcMain = "fail"
    /\ pcMain' = "exit"
    /\ exitCode' = 1
    /\ UNCHANGED <<batchSize, walkIdx, walkErr, repos, i, spawned, wg, mutex, results,
                   taskPc, taskChunk, taskOut, taskTmp, mainResults, absOK, files>>
    /\ UNCHANGED <<aggVars, prVars>>

\* main.go:45-54: findGitRepos has returned
mainAfterWalk ==
    /\ pcMain = "walked"
    /\ pcMain' = IF walkErr # "nil" THEN "fail" ELSE "loop"
    /\ UNCHANGED <<exitCode, batchSize, walkIdx, walkErr, repos, i, spawned, wg, mutex,
                   results, taskPc, taskChunk, taskOut, taskTmp, mainResults, absOK,
                   files>>
    /\ UNCHANGED <<aggVars, prVars>>

(* processReposBatch, main.go:107-141 *)

\* faulty variant of chunkEnd: a batch size below 1 is taken as 1
chunkEndClamped(start) ==
    Min(start + (IF batchSize < 1 THEN 1 ELSE batchSize), Len(repos))

\* faulty variant of chunkEnd: the chunk reaches one path into the next chunk
chunkEndOffByOne(start) == Min(start + batchSize + 1, Len(repos))

\* faulty variant of chunkEnd: the chunk is not cut at the batch size
chunkEndWholeList(start) == Len(repos)

\* end := i + batchSize; if end > len(repoPaths) { end = len(repoPaths) },
\* main.go:114-117
chunkEnd(start) == Min(start + batchSize, Len(repos))

\* faulty variant of wgAdd: one is added for the chunk, not one per goroutine
wgAddOne(n) == wg + 1

\* wg.Add(len(batch)), main.go:120
wgAdd(n) == wg + n

\* faulty variant of wgWaitReturns: the loop does not wait for the chunk
wgWaitNoBarrier == TRUE

\* wg.Wait() returns, main.go:137
wgWaitReturns == wg = 0

\* faulty variant of mutexFree: the lock excludes nobody
mutexNeverHeld == TRUE

\* mutex.Lock() can be taken, main.go:131
mutexFree == mutex = 0

\* faulty variant of Failed: the error check is inverted
FailedInverted(out) == out.err = "nil"

\* if err != nil, main.go:126
Failed(out) == out.err # "nil"

\* the head of the loop, main.go:113-120: the next chunk is sliced and counted
\* in the WaitGroup; a chunk whose end lies before its start makes the slice
\* expression panic, which ends the process with status 2
batchLoop ==
    /\ pcMain = "loop"
    /\ i < Len(repos)
    /\ IF chunkEnd(i) < i
       THEN /\ pcMain' = "exit"
            /\ exitCode' = 2
            /\ UNCHANGED <<wg, spawned>>
       ELSE /\ wg' = wgAdd(chunkEnd(i) - i)
            /\ spawned' = 0
            /\ pcMain' = "spawn"
            /\ UNCHANGED exitCode
    /\ UNCHANGED <<batchSize, walkIdx, walkErr, repos, i, mutex, results, taskPc,
                   taskChunk, taskOut, taskTmp, mainResults, absOK, files>>
    /\ UNCHANGED <<aggVars, prVars>>

\* go func(path string) {...}(repoPath), main.go:122-135, for the next path of
\* the chunk
batchSpawn ==
    /\ pcMain = "spawn"
    /\ i + spawned < chunkEnd(i)
    /\ LET t == i + spawned + 1
       IN  /\ taskPc' = [taskPc EXCEPT ![t] = "start"]
           /\ taskChunk' = [taskChunk EXCEPT ![t] = i]
    /\ spawned' = spawned + 1
    /\ UNCHANGED <<pcMain, exitCode, batchSize, walkIdx, walkErr, repos, i, wg, mutex,
                   results, taskOut, taskTmp, mainResults, absOK, files>>
    /\ UNCHANGED <<aggVars, prVars>>

\* wg.Wait() and i += batchSize, main.go:137, 113
batchWait ==
    /\ pcMain = "spawn"
    /\ i + spawned >= chunkEnd(i)
    /\ wgWaitReturns
    /\ i' = i + batchSize
    /\ pcMain' = "loop"
    /\ UNCHANGED <<exitCode, batchSize, walkIdx, walkErr, repos, spawned, wg, mutex,
                   results, taskPc, taskChunk, taskOut, taskTmp, mainResults, absOK,
                   files>>
    /\ UNCHANGED <<aggVars, prVars>>

\* return results, main.go:140, into main's results, main.go:54
batchReturn ==
    /\ pcMain = "loop"
    /\ i >= Len(repos)
    /\ mainResults' = [returned |-> TRUE, slice |-> results]
    /\ pcMain' = "abs"
    /\ UNCHANGED <<exitCode, batchSize, walkIdx, walkErr, repos, i, spawned, wg, mutex,
                   results, taskPc, taskChunk, taskOut, taskTmp, absOK, files>>
    /\ UNCHANGED <<aggVars, prVars>>

(* the goroutine of one repository, main.go:123-134 *)

taskUnchanged ==
    /\ UNCHANGED <<pcMain, exitCode, batchSize, walkIdx, walkErr, repos, i, spawned,
                   mainResults, absOK, files>>
    /\ UNCHANGED <<aggVars, prVars>>

\* faulty variant of afterProcessRepo: wg.Done() is not deferred, and the
\* return on an error leaves the goroutine without calling it
afterProcessRepoNoDone(out) == IF Failed(out) THEN "done" ELSE "lock"

\* where the goroutine goes after processRepo, main.go:124-131: on an error it
\* returns, which runs the deferred wg.Done(); else it takes the mutex
afterProcessRepo(out) == IF Failed(out) THEN "finish" ELSE "lock"

\* repoInfo, err := processRepo(path); on an error the goroutine logs it and
\* returns, main.go:125-129
taskProcessRepo(t) ==
    /\ taskPc[t] = "start"
    /\ \E w \in RepoWorlds :
          LET out == processRepo(repos[t], w)
          IN  /\ taskOut' = [taskOut EXCEPT ![t] = out]
              /\ taskPc' = [taskPc EXCEPT ![t] = afterProcessRepo(out)]
    /\ UNCHANGED <<wg, mutex, results, taskChunk, taskTmp>>
    /\ taskUnchanged

\* mutex.Lock(), main.go:131
taskLock(t) ==
    /\ taskPc[t] = "lock"
    /\ mutexFree
    /\ mutex' = t
    /\ taskPc' = [taskPc EXCEPT ![t] = "read"]
    /\ UNCHANGED <<wg, results, taskChunk, taskOut, taskTmp>>
    /\ taskUnchanged

\* results = append(results, repoInfo...), main.go:132: the slice is read ...
taskAppendRead(t) ==
    /\ taskPc[t] = "read"
    /\ taskTmp' = [taskTmp EXCEPT ![t] = results]
    /\ taskPc' = [taskPc EXCEPT ![t] = "write"]
    /\ UNCHANGED <<wg, mutex, results, taskChunk, taskOut>>
    /\ taskUnchanged

\* ... and the extended slice is stored
taskAppendWrite(t) ==
    /\ taskPc[t] = "write"
    /\ results' = taskTmp[t] \o taskOut[t].infos
    /\ taskTmp' = [taskTmp EXCEPT ![t] = <<>>]
    /\ taskPc' = [taskPc EXCEPT ![t] = "unlock"]
    /\ UNCHANGED <<wg, mutex, taskChunk, taskOut>>
    /\ taskUnchanged

\* mutex.Unlock(), main.go:133
taskUnlock(t) ==
    /\ taskPc[t] = "unlock"
    /\ mutex' = 0
    /\ taskPc' = [taskPc EXCEPT ![t] = "finish"]
    /\ UNCHANGED <<wg, results, taskChunk, taskOut, taskTmp>>
    /\ taskUnchanged

\* defer wg.Done(), main.go:124: the goroutine ends
taskDone(t) ==
    /\ taskPc[t] = "finish"
    /\ wg' = wg - 1
    /\ taskPc' = [taskPc EXCEPT ![t] = "done"]
    /\ UNCHANGED <<mutex, results, taskChunk, taskOut, taskTmp>>
    /\ taskUnchanged

(* main after the batch, main.go:56-79 *)

\* outputDir, err := filepath.Abs(*baseDir), main.go:57-61
mainAbs ==
    /\ pcMain = "abs"
    /\ \E ok \in BOOLEAN :
          /\ absOK' = ok
          /\ pcMain' = IF ok THEN "write_info" ELSE "fail"
    /\ UNCHANGED <<exitCode, batchSize, walkIdx, walkErr, repos, i, spawned, wg, mutex,
                   results, taskPc, taskChunk, taskOut, taskTmp, mainResults, files>>
    /\ UNCHANGED <<aggVars, prVars>>

\* faulty variant of writerReturn: a writer with no rows reports an error
writerReturnNoData(rows) == IF rows = <<>> THEN "no data" ELSE "nil"

\* return nil, main.go:265, 333, 390: what a writer returns when it has
\* written all its rows
writerReturn(rows) == "nil"

\* one of the three writers, called with the rows it is to write: os.Create
\* may fail (main.go:227-230); writer.Write may fail on a row, after n rows
\* (main.go:259-261; the header goes into the empty buffer of the csv writer,
\* so the check of main.go:238-240 never fires); else all rows are written
writeCSV(f, rows, next) ==
    /\ \/ /\ files' = [files EXCEPT ![f] = [status |-> "create_err", rows |-> <<>>]]
          /\ pcMain' = "fail"
       \/ \E n \in 0..(Len(rows) - 1) :
             /\ files' = [files EXCEPT ![f] =
                             [status |-> "write_err", rows |-> SubSeq(rows, 1, n)]]
             /\ pcMain' = "fail"
       \/ /\ files' = [files EXCEPT ![f] = [status |-> "written", rows |-> rows]]
          /\ pcMain' = IF writerReturn(rows) # "nil" THEN "fail" ELSE next
    /\ UNCHANGED <<exitCode, batchSize, walkIdx, walkErr, repos, i, spawned, wg, mutex,
                   results, taskPc, taskChunk, taskOut, taskTmp, mainResults, absOK>>
    /\ UNCHANGED <<aggVars, prVars>>

\* main.go:64-67
writeCommitInfoCSV ==
    /\ pcMain = "write_info"
    /\ writeCSV("info", commitInfoRows(mainResults.slice), "write_summary")

\* main.go:69-72
writeSummaryCSV ==
    /\ pcMain = "write_summary"
    /\ writeCSV("summary", summaryRows(mainResults.slice), "write_yearly")

\* main.go:73-76
writeYearlySummaryCSV ==
    /\ pcMain = "write_yearly"
    /\ writeCSV("yearly", yearlyRows(mainResults.slice), "completed")

\* main.go:78-79: main returns
mainReturn ==
    /\ pcMain = "completed"
    /\ pcMain' = "exit"
    /\ exitCode' = 0
    /\ UNCHANGED <<batchSize, walkIdx, walkErr, repos, i, spawned, wg, mutex, results,
                   taskPc, taskChunk, taskOut, taskTmp, mainResults, absOK, files>>
    /\ UNCHANGED <<aggVars, prVars>>

Next ==
    \/ walkRoot
    \/ walkEntry
    \/ mainAfterWalk
    \/ mainFail
    \/ batchLoop
    \/ batchSpawn
    \/ batchWait
    \/ batchReturn
    \/ \E t \in Tasks : taskProcessRepo(t)
    \/ \E t \in Tasks : taskLock(t)
    \/ \E t \in Tasks : taskAppendRead(t)
    \/ \E t \in Tasks : taskAppendWrite(t)
    \/ \E t \in Tasks : taskUnlock(t)
    \/ \E t \in Tasks : taskDone(t)
    \/ mainAbs
    \/ writeCommitInfoCSV
    \/ writeSummaryCSV
    \/ writeYearlySummaryCSV
    \/ mainReturn

Spec == Init /\ [][Next]_vars

\* the steps of the goroutine that runs processReposBatch, and of the goroutine
\* started for the t-th path
batchStep == batchLoop \/ batchSpawn \/ batchWait \/ batchReturn

taskStep(t) ==
    \/ taskProcessRepo(t) \/ taskLock(t) \/ taskAppendRead(t)
    \/ taskAppendWrite(t) \/ taskUnlock(t) \/ taskDone(t)

\* SpecLive: Spec under the fairness of the Go scheduler: a goroutine that can
\* run is run, so processReposBatch keeps stepping, and every repository task
\* terminates, so each started goroutine keeps stepping up to its wg.Done()
SpecLive ==
    /\ Init /\ [][Next]_vars
    /\ WF_vars(batchStep)
    /\ \A t \in Tasks : WF_vars(taskStep(t))

----------------------------------------------------------------------------
(* Properties of Spec *)

Started(t) == taskPc[t] # "idle"
Finished(t) == taskPc[t] = "done"
Running == {t \in Tasks : Started(t) /\ ~Finished(t)}

\* the histograms of the repositories whose processing succeeded, in the
\* order of the repository list: what a run that processes one repository
\* after the other collects
SeqResults ==
    Flatten([t \in 1..Len(repos) |->
                IF taskOut[t].err = "nil" THEN taskOut[t].infos ELSE <<>>])

\* with batch size 1 the scheduler collects exactly SeqResults
BatchOneIsSequential ==
    (batchSize = 1 /\ mainResults.returned) => mainResults.slice = SeqResults

\* C2: with a positive batch size B, the number of repository tasks that have
\* been started and have not yet finished is at most B in every state.
C2_BoundedConcurrency ==
    batchSize > 0 => Cardinality(Running) <= batchSize

\* two tasks run under batch size 2 while a third repository waits its turn
C2_Witness ==
    /\ batchSize = 2
    /\ Len(repos) = 3
    /\ Cardinality(Running) = 2
    /\ taskPc[3] = "idle"

\* C3: no task of a later chunk is started until every task of the preceding
\* chunks has finished, by success or by failure: when a task of the chunk that
\* starts at index c runs, the tasks of the c paths before it are done.
C3_Barrier ==
    \A t \in Tasks :
        Started(t) => \A u \in 1..taskChunk[t] : Finished(u)

\* a task of the second chunk runs after a failed and a successful task of
\* the first chunk
C3_Witness ==
    /\ batchSize = 2
    /\ 3 \in Running
    /\ taskChunk[3] = 2
    /\ taskOut[1].err # "nil"
    /\ taskOut[2].err = "nil" /\ taskOut[2].infos # <<>>

\* C4: under every interleaving, the collection processReposBatch returns is, as
\* a multiset, the union of the BranchHistogram lists of the repositories whose
\* processing succeeded: nothing lost, duplicated or added.
C4_ResultIsUnion ==
    mainResults.returned => SeqToBag(mainResults.slice) = SeqToBag(SeqResults)

\* three repositories of one chunk succeeded, two of them with equal
\* histograms, and the tasks appended in another order than the paths
C4_Witness ==
    /\ mainResults.returned
    /\ batchSize = 3
    /\ Len(repos) = 3
    /\ \A t \in 1..3 : taskOut[t].err = "nil" /\ taskOut[t].infos # <<>>
    /\ taskOut[1] = taskOut[3]
    /\ mainResults.slice # SeqResults

\* C5: when processReposBatch has returned, every task it spawned has finished:
\* none is running, and the shared slice is still the one that was returned
\* (no append after the return).
C5_FullJoin ==
    mainResults.returned =>
        /\ \A t \in 1..Len(repos) : Finished(t)
        /\ Running = {}
        /\ results = mainResults.slice

\* the scheduler has returned from two chunks with a failed task in each
C5_Witness ==
    /\ mainResults.returned
    /\ batchSize = 2
    /\ Len(repos) = 3
    /\ taskOut[2].err # "nil"
    /\ taskOut[3].err # "nil"
    /\ mainResults.slice # <<>>

\* the rows the three files hold when only the repositories that succeeded
\* contribute, each of their histograms once
ExpectedInfo == commitInfoRows(SeqResults)
ExpectedSummary == summaryRows(SeqResults)
ExpectedYearly == yearlyRows(SeqResults)

\* C6: a repository whose processing fails contributes no row to the detail,
\* daily and yearly outputs, and every histogram of every other repository, of
\* the same chunk and of other chunks, is in the outputs.
C6_FailureIsolated ==
    /\ files["info"].status = "written" =>
           SeqToBag(files["info"].rows) = SeqToBag(ExpectedInfo)
    /\ files["summary"].status = "written" => files["summary"].rows = ExpectedSummary
    /\ files["yearly"].status = "written" => files["yearly"].rows = ExpectedYearly

\* the run ended after a repository that could not be opened, with a
\* successful repository in its chunk and another in the next chunk
C6_Witness ==
    /\ pcMain = "exit" /\ exitCode = 0
    /\ batchSize = 2
    /\ Len(repos) = 3
    /\ taskOut[1].err = "failed to open repository"
    /\ taskOut[2].err = "nil" /\ taskOut[2].infos # <<>>
    /\ taskOut[3].err = "nil" /\ taskOut[3].infos # <<>>

\* C7 (as claimed): with batch sizes 1, 3 and 50 the same repository list gives
\* the same final report (detail rows, daily totals, yearly totals) for every
\* completion order of the tasks: the report of the run with batch size 1,
\* which collects SeqResults.
C7_SameReportForAllBatchSizes ==
    (pcMain = "exit" /\ exitCode = 0 /\ batchSize \in {1, 3, 50}) =>
        /\ files["info"].rows = ExpectedInfo
        /\ files["summary"].rows = ExpectedSummary
        /\ files["yearly"].rows = ExpectedYearly

\* What does not depend on the batch size: the daily and yearly totals, and
\* the detail rows as a multiset.
BatchIndependentTotals ==
    (pcMain = "exit" /\ exitCode = 0) =>
        /\ SeqToBag(files["info"].rows) = SeqToBag(ExpectedInfo)
        /\ files["summary"].rows = ExpectedSummary
        /\ files["yearly"].rows = ExpectedYearly

\* C9 (as claimed): an error on a single directory entry does not abort the
\* walk: the remaining entries are visited and the run goes on to process the
\* repositories; only an error at the base directory fails the run.
C9_WalkSurvivesEntryError ==
    /\ (pcMain # "walk" /\ walkErr = EntryErr) =>
           (walkIdx = MaxEntries + 1 /\ pcMain \notin {"fail", "exit"})
    /\ (pcMain = "fail" /\ walkErr # "nil") => walkErr \in RootErrs

NoCreateFailed == \A f \in Files : files[f].status # "create_err"
NoWriteFailed == \A f \in Files : files[f].status # "write_err"

\* C10 (as claimed): whenever the walk, the absolute-path resolution and the
\* creation of the output files succeed, the run attempts all three output
\* files and exits with status zero.
C10_ExitZero ==
    (pcMain = "exit" /\ walkErr = "nil" /\ absOK /\ NoCreateFailed) =>
        /\ exitCode = 0
        /\ \A f \in Files : files[f].status # "none"

\* C10 (amended): whenever the walk, the absolute-path resolution, the creation
\* of the output files and every write to them succeed, the run writes all
\* three output files and exits with status zero, however many repositories
\* failed.
C10_ExitZeroUnlessWriteFails ==
    (pcMain = "exit" /\ walkErr = "nil" /\ absOK /\ NoCreateFailed /\ NoWriteFailed) =>
        /\ exitCode = 0
        /\ \A f \in Files : files[f].status = "written"

\* the run ended with status zero and three files although all three
\* repositories failed
C10_Witness ==
    /\ pcMain = "exit" /\ exitCode = 0
    /\ Len(repos) = 3
    /\ \A t \in 1..3 : taskOut[t].err # "nil"
    /\ \A f \in Files : files[f].status = "written"

\* C11: for a positive batch size B the repository list is cut into consecutive
\* chunks that do not overlap and cover it in order, each of at most B paths and
\* every chunk but the last of exactly B: the task of the t-th path is started
\* in the chunk that begins at index B * ((t - 1) \div B), every path has its task
\* when the scheduler returns, and a path that was handed to a task is never
\* handed to another one.
C11_Partition ==
    /\ [](\A t \in Tasks :
             Started(t) =>
                 /\ batchSize > 0
                 /\ t <= Len(repos)
                 /\ taskChunk[t] = batchSize * ((t - 1) \div batchSize))
    /\ []((mainResults.returned /\ batchSize > 0) => \A t \in 1..Len(repos) : Started(t))
    /\ [][\A t \in Tasks : (Started(t) /\ taskPc[t] # "start") => taskPc'[t] # "start"]_vars

\* three paths were cut into a chunk of two and a chunk of one
C11_Witness ==
    /\ mainResults.returned
    /\ batchSize = 2
    /\ Len(repos) = 3
    /\ taskChunk = <<0, 0, 2>>
    /\ \A t \in 1..3 : Finished(t)

\* the counts in the last column of the rows written to file f
FileCounts(f) == {Atoi(files[f].rows[j][Len(files[f].rows[j])]) : j \in DOMAIN files[f].rows}

\* C13: a branch on which no commit was observed is in no output: every
\* BranchHistogram in the result collection of the scheduler (the shared slice
\* and the slice handed to main) has a non-empty date map whose counts are all
\* at least 1, and no detail row, daily total or yearly total has count 0.
C13_NoEmptyHistogram ==
    /\ \A h \in Range(results) \cup Range(mainResults.slice) :
           /\ DOMAIN h.CommitsByDate # {}
           /\ \A d \in DOMAIN h.CommitsByDate : h.CommitsByDate[d] >= 1
    /\ \A f \in Files : \A c \in FileCounts(f) : c >= 1

\* the run ended with the three files written after a task processed the
\* repository that has a branch without an observed commit
C13_Witness ==
    /\ pcMain = "exit" /\ exitCode = 0
    /\ \E t \in 1..Len(repos) :
           /\ Finished(t)
           /\ taskOut[t] = processRepo(repos[t], RepoB)
           /\ \E k \in DOMAIN RepoB.refs :
                  /\ IsBranch(RepoB.refs[k]) /\ RepoB.refs[k].logOK
                  /\ RepoB.refs[k].commits = <<>>
                  /\ \A h \in Range(mainResults.slice) :
                         h.BranchName # RepoB.refs[k].short
    /\ \A f \in Files : files[f].status = "written" /\ files[f].rows # <<>>

\* C15 (as claimed): in the detail rows written, the rows of a fixed repository
\* display name and branch name are sorted by date ascending and no date occurs
\* twice among them, whatever paths were discovered.
C15_BranchRowsSorted ==
    files["info"].status = "written" =>
        \A j, k \in DOMAIN files["info"].rows :
            (/\ j < k
             /\ files["info"].rows[j][2] = files["info"].rows[k][2]
             /\ files["info"].rows[j][3] = files["info"].rows[k][3])
            => StrLess(files["info"].rows[j][1], files["info"].rows[k][1])

\* What holds of the detail rows: the file is the concatenation, in the order
\* of the collected slice, of one strictly ascending run of rows per
\* BranchHistogram.
InfoRowsSortedPerHistogram ==
    files["info"].status = "written" =>
        /\ files["info"].rows =
               Flatten([h \in DOMAIN mainResults.slice |->
                           commitInfoRows(<<mainResults.slice[h]>>)])
        /\ \A h \in DOMAIN mainResults.slice :
               LET run == commitInfoRows(<<mainResults.slice[h]>>)
               IN  \A j \in 1..(Len(run) - 1) : StrLess(run[j][1], run[j + 1][1])

\* processReposBatch is blocked in wg.Wait()
WaitBlocked ==
    /\ pcMain = "spawn"
    /\ i + spawned >= chunkEnd(i)
    /\ wg # 0

\* C20: under fair scheduling, for a positive batch size, processReposBatch
\* returns once it is entered, every task terminating; a task that fails still
\* takes its count off the barrier (the counter is the number of tasks of the
\* current chunk that have not finished); and wg.Wait() blocks only while a
\* task of the chunk has not finished.
C20_BatchReturns ==
    /\ ((pcMain = "loop" /\ batchSize > 0) ~> mainResults.returned)
    /\ [](pcMain = "spawn" =>
              wg = (chunkEnd(i) - i)
                   - Cardinality({t \in (i + 1)..chunkEnd(i) : taskPc[t] = "done"}))
    /\ [](WaitBlocked => \E t \in (i + 1)..chunkEnd(i) : taskPc[t] \notin {"idle", "done"})

\* processReposBatch returned after a chunk in which one task failed and one
\* succeeded
C20_Witness ==
    /\ mainResults.returned
    /\ batchSize = 2
    /\ Len(repos) >= 2
    /\ taskOut[1].err # "nil" /\ taskPc[1] = "done"
    /\ taskOut[2].err = "nil" /\ taskPc[2] = "done"
    /\ taskChunk[1] = taskChunk[2]

\* processReposBatch is running: main is at the head of the loop or inside it
InBatch == pcMain \in {"loop", "spawn"}

\* C21: processReposBatch makes progress only for a positive batch size.  With
\* a non-empty repository list and a batch size of 0 or less, which main hands
\* over as the flag gave it, no repository task is ever started and no result is
\* ever returned: with 0 the chunk index stays 0 and the loop goes round for
\* ever (it never leaves the loop and takes each of its two steps again and
\* again); with a negative size the step taken at the head of the loop is the
\* panic of the slice expression of the first chunk, which aborts the run with
\* status 2.
C21_NoProgressUnlessPositive ==
    /\ []((batchSize <= 0 /\ Len(repos) > 0) =>
              /\ \A t \in Tasks : ~Started(t)
              /\ ~mainResults.returned
              /\ i = 0
              /\ results = <<>>)
    /\ [][(batchSize = 0 /\ Len(repos) > 0 /\ InBatch) => InBatch']_vars
    /\ ((batchSize = 0 /\ Len(repos) > 0 /\ pcMain = "loop") ~> pcMain = "spawn")
    /\ ((batchSize = 0 /\ Len(repos) > 0 /\ pcMain = "spawn") ~> pcMain = "loop")
    /\ [][(batchSize < 0 /\ Len(repos) > 0 /\ pcMain = "loop")
              => (pcMain' = "exit" /\ exitCode' = 2)]_vars

\* with batch size 0 and three repositories found, the loop is in its body
\* with an empty chunk: nothing was added to the WaitGroup, no task exists
C21_Witness ==
    /\ batchSize = 0
    /\ Len(repos) = 3
    /\ pcMain = "spawn"
    /\ i = 0 /\ spawned = 0 /\ wg = 0
    /\ \A t \in Tasks : taskPc[t] = "idle"
    /\ ~mainResults.returned

\* with a negative batch size and three repositories found, the run was
\* aborted by the panic before any task was started
BatchNegativeAborted ==
    /\ batchSize < 0
    /\ Len(repos) = 3
    /\ pcMain = "exit" /\ exitCode = 2
    /\ \A t \in Tasks : taskPc[t] = "idle"
    /\ ~mainResults.returned

----------------------------------------------------------------------------
(* SpecAgg: the three report writers applied to a results slice and to a   *)
(* reordering of it.  The slices are sequences of the BranchHistograms     *)
(* that processRepo produces for the modelled repositories.                *)

\* every RepoBranchCommits processRepo can return for a modelled repository
HistUniverse ==
    UNION {Range(processRepo(EntryPath(k), w).infos) :
              k \in 1..MaxEntries, w \in RepoWorlds}

NoRows == [info |-> <<>>, summary |-> <<>>, yearly |-> <<>>]

AggUnchangedMain == UNCHANGED <<mainVars, prVars>>

AggInit ==
    /\ aggPc = "info"
    /\ aggIn \in UNION {[1..n -> HistUniverse] : n \in 0..MaxHist}
    /\ aggPerm \in Perms(aggIn)
    /\ aggOut = NoRows
    /\ aggPermOut = NoRows
    /\ pcMain = "off" /\ exitCode = -1 /\ batchSize = 0 /\ walkIdx = 0
    /\ walkErr = "nil" /\ repos = <<>> /\ i = 0 /\ spawned = 0 /\ wg = 0
    /\ mutex = 0 /\ results = <<>> /\ taskPc = <<>> /\ taskChunk = <<>>
    /\ taskOut = <<>> /\ taskTmp = <<>>
    /\ mainResults = [returned |-> FALSE, slice |-> <<>>] /\ absOK = FALSE
    /\ files = <<>>
    /\ PrIdle

\* the writers run in the order main calls them, main.go:64-76
\* writeCommitInfoCSV on both slices
aggWriteCommitInfo ==
    /\ aggPc = "info"
    /\ aggPc' = "summary"
    /\ aggOut' = [aggOut EXCEPT !.info = commitInfoRows(aggIn)]
    /\ aggPermOut' = [aggPermOut EXCEPT !.info = commitInfoRows(aggPerm)]
    /\ UNCHANGED <<aggIn, aggPerm>>
    /\ AggUnchangedMain

\* writeSummaryCSV on both slices
aggWriteSummary ==
    /\ aggPc = "summary"
    /\ aggPc' = "yearly"
    /\ aggOut' = [aggOut EXCEPT !.summary = summaryRows(aggIn)]
    /\ aggPermOut' = [aggPermOut EXCEPT !.summary = summaryRows(aggPerm)]
    /\ UNCHANGED <<aggIn, aggPerm>>
    /\ AggUnchangedMain

\* writeYearlySummaryCSV on both slices
aggWriteYearly ==
    /\ aggPc = "yearly"
    /\ aggPc' = "done"
    /\ aggOut' = [aggOut EXCEPT !.yearly = yearlyRows(aggIn)]
    /\ aggPermOut' = [aggPermOut EXCEPT !.yearly = yearlyRows(aggPerm)]
    /\ UNCHANGED <<aggIn, aggPerm>>
    /\ AggUnchangedMain

AggNext == aggWriteCommitInfo \/ aggWriteSummary \/ aggWriteYearly

SpecAgg == AggInit /\ [][AggNext]_vars

AggDone == aggPc = "done"

\* the dates of a results slice that time.Parse rejects
Unparsable(res) ==
    {d \in UNION {DOMAIN res[k].CommitsByDate : k \in DOMAIN res} : ~Parse(d).ok}

\* C1 (as claimed): for every list of BranchHistograms handed to the three
\* writers, the sum of the daily-total counts equals the sum of the detail-row
\* counts, which equals the sum of the yearly-total counts.
C1_Conservation ==
    AggDone =>
        /\ CountSum(aggOut.summary) = CountSum(aggOut.info)
        /\ CountSum(aggOut.info) = CountSum(aggOut.yearly)

\* What the writers do conserve: the daily and detail sums always agree, and
\* the yearly sum agrees with them when every date parses.
AggConservationParsable ==
    AggDone =>
        /\ CountSum(aggOut.summary) = CountSum(aggOut.info)
        /\ Unparsable(aggIn) = {} => CountSum(aggOut.info) = CountSum(aggOut.yearly)

\* C8 (as claimed): the writers give the same row sequence, in each of the three
\* views, for any two orderings of the same list of BranchHistograms.
C8_OrderIndependent ==
    AggDone => aggOut = aggPermOut

\* What is independent of the input order: the daily and yearly views, and the
\* detail rows as a multiset.
AggOrderIndependentTotals ==
    AggDone =>
        /\ aggOut.summary = aggPermOut.summary
        /\ aggOut.yearly = aggPermOut.yearly
        /\ SeqToBag(aggOut.info) = SeqToBag(aggPermOut.info)

\* the author dates of the modelled commits, and the year of the commit a date
\* string was formatted from
ModelTimes == {T1, T2, T3, TFar}
TrueYear(d) == (CHOOSE t \in ModelTimes : Format(t) = d).year

AllDates(res) == UNION {DOMAIN res[k].CommitsByDate : k \in DOMAIN res}

\* the sum of the counts the histograms of res hold for date d
DateCount(res, d) ==
    SumSeq([k \in DOMAIN res |->
               IF d \in DOMAIN res[k].CommitsByDate
               THEN res[k].CommitsByDate[d] ELSE 0])

\* the sum of the counts the histograms of res hold for the dates of year y
YearCount(res, y) ==
    LET dates == SortStrings(AllDates(res))
    IN  SumSeq([j \in DOMAIN dates |->
                   IF TrueYear(dates[j]) = y THEN DateCount(res, dates[j]) ELSE 0])

\* C12: for every list of BranchHistograms, a date is among the daily totals
\* exactly when some histogram holds it, its daily total is the sum of the counts
\* the histograms hold for it, and each year's total is the sum of the counts of
\* all dates of that year.
C12_TotalsAreSums ==
    AggDone =>
        /\ {aggOut.summary[j][1] : j \in DOMAIN aggOut.summary} = AllDates(aggIn)
        /\ \A j \in DOMAIN aggOut.summary :
               Atoi(aggOut.summary[j][2]) = DateCount(aggIn, aggOut.summary[j][1])
        /\ \A j \in DOMAIN aggOut.yearly :
               Atoi(aggOut.yearly[j][2]) = YearCount(aggIn, Atoi(aggOut.yearly[j][1]))

\* one branch with 2024-01-01: 2 and 2024-01-02: 1, another with 2024-01-01: 1:
\* the daily totals are 3 and 1, the total of 2024 is 4
C12_Witness ==
    /\ AggDone
    /\ aggIn = <<RepoBranchCommits(repoNameOf(EntryPath(1)), "main",
                                   (Format(T2) :> 2) @@ (Format(T3) :> 1)),
                 RepoBranchCommits(repoNameOf(EntryPath(2)), "main", (Format(T2) :> 1))>>
    /\ aggOut.summary = <<<<Format(T2), Itoa(3)>>, <<Format(T3), Itoa(1)>>>>
    /\ aggOut.yearly = <<<<Itoa(2024), Itoa(4)>>>>

\* the calendar position of the commit a date string was formatted from
Chron(d) ==
    LET t == CHOOSE t \in ModelTimes : Format(t) = d
    IN  (t.year * 10000) + (t.month * 100) + t.day

YearsIncreasing(rows) ==
    \A j \in 1..(Len(rows) - 1) : Atoi(rows[j][1]) < Atoi(rows[j + 1][1])

DatesCount(res, S) ==
    LET dates == SortStrings(S)
    IN  SumSeq([j \in DOMAIN dates |-> DateCount(res, dates[j])])

\* C19: a date string that time.Parse rejects is left out of the yearly totals
\* only: the detail rows and the daily totals hold it with its full count, every
\* date that parses is counted in the three views, and the yearly writer
\* returns its rows (AggDone is reached) whatever dates the histograms hold.
C19_UnparsableSkippedInYearlyOnly ==
    AggDone =>
        /\ \A k \in DOMAIN aggIn : \A d \in DOMAIN aggIn[k].CommitsByDate :
               <<d, aggIn[k].RepoName, aggIn[k].BranchName,
                 Itoa(aggIn[k].CommitsByDate[d])>> \in Range(aggOut.info)
        /\ \A d \in AllDates(aggIn) :
               <<d, Itoa(DateCount(aggIn, d))>> \in Range(aggOut.summary)
        /\ \A d \in AllDates(aggIn) \ Unparsable(aggIn) :
               <<Itoa(TrueYear(d)), Itoa(YearCount(aggIn, TrueYear(d)))>>
                   \in Range(aggOut.yearly)
        /\ \A d \in Unparsable(aggIn) :
               \A j \in DOMAIN aggOut.yearly : aggOut.yearly[j][1] # Itoa(TrueYear(d))
        /\ CountSum(aggOut.yearly)
               = DatesCount(aggIn, AllDates(aggIn) \ Unparsable(aggIn))

\* the writers ran on a histogram holding the date 10000-01-01, which
\* time.Parse rejects, and a date that parses: the yearly totals miss only the
\* count of the former
C19_Witness ==
    /\ AggDone
    /\ \E k \in DOMAIN aggIn :
           /\ Format(TFar) \in DOMAIN aggIn[k].CommitsByDate
           /\ Format(T1) \in DOMAIN aggIn[k].CommitsByDate
    /\ Unparsable(aggIn) = {Format(TFar)}
    /\ aggOut.yearly # <<>>
    /\ CountSum(aggOut.summary) = CountSum(aggOut.info)
    /\ CountSum(aggOut.yearly) = CountSum(aggOut.summary) - DateCount(aggIn, Format(TFar))

----------------------------------------------------------------------------
(* SpecRepo: processRepo, main.go:144-219, one step per statement, applied *)
(* to the repositories that can be built from a set of references         *)

\* the references a modelled repository can hold: branches that iterate to the
\* end, a branch whose log cannot be started, branches whose iteration is
\* interrupted by an error or a panic after two, one or no commit, a symbolic
\* reference under refs/heads, a tag, a remote-tracking reference and HEAD
RefCases ==
    {Ref("heads", "main", "hash", TRUE, <<T2, T2, T3>>, "none"),
     Ref("heads", "dev", "hash", TRUE, <<T1>>, "none"),
     Ref("heads", "gone", "hash", FALSE, <<>>, "none"),
     Ref("heads", "cut", "hash", TRUE, <<T2, T3>>, "error"),
     Ref("heads", "boom", "hash", TRUE, <<T3>>, "panic"),
     Ref("heads", "void", "hash", TRUE, <<>>, "error"),
     Ref("heads", "alias", "symbolic", TRUE, <<>>, "none"),
     Ref("tags", "v1", "hash", TRUE, <<T2>>, "none"),
     Ref("remotes", "origin/main", "hash", TRUE, <<T2>>, "none"),
     HeadRef(<<T1, T2>>)}

\* the reference lists of up to MaxRefs references, in any order
RefLists ==
    {refs \in UNION {[1..n -> RefCases] : n \in 0..MaxRefs} :
        \A j, k \in DOMAIN refs : j # k => refs[j] # refs[k]}

RepoCases ==
    {RepoBroken, RepoNoRefs}
    \cup {Repo(TRUE, TRUE, refs, iterOK, HeadRef(<<T1, T2>>)) :
             refs \in RefLists, iterOK \in BOOLEAN}

MainOff ==
    /\ pcMain = "off" /\ exitCode = -1 /\ batchSize = 0 /\ walkIdx = 0
    /\ walkErr = "nil" /\ repos = <<>> /\ i = 0 /\ spawned = 0 /\ wg = 0
    /\ mutex = 0 /\ results = <<>> /\ taskPc = <<>> /\ taskChunk = <<>>
    /\ taskOut = <<>> /\ taskTmp = <<>>
    /\ mainResults = [returned |-> FALSE, slice |-> <<>>] /\ absOK = FALSE
    /\ files = <<>>

RepoInit ==
    /\ prPc = "open"
    /\ prPath \in {EntryPath(1), EntryPath(2)}
    /\ prRepo \in RepoCases
    /\ prIdx = 0
    /\ prResults = <<>>
    /\ prLogged = {}
    /\ prOut = Returned("nil", <<>>)
    /\ MainOff
    /\ AggIdle

prUnchanged == UNCHANGED <<mainVars, aggVars, prPath, prRepo>>

\* git.PlainOpen, main.go:145-148
prOpen ==
    /\ prPc = "open"
    /\ IF ~prRepo.openOK
       THEN /\ prOut' = Returned("failed to open repository", <<>>)
            /\ prPc' = "returned"
       ELSE /\ prPc' = "references"
            /\ UNCHANGED prOut
    /\ UNCHANGED <<prIdx, prResults, prLogged>>
    /\ prUnchanged

\* repo.References, main.go:159-162
prReferences ==
    /\ prPc = "references"
    /\ IF ~prRepo.refsOK
       THEN /\ prOut' = Returned("failed to get references", <<>>)
            /\ prPc' = "returned"
            /\ UNCHANGED prIdx
       ELSE /\ prPc' = "foreach"
            /\ prIdx' = 1
            /\ UNCHANGED prOut
    /\ UNCHANGED <<prResults, prLogged>>
    /\ prUnchanged

\* faulty variant of callbackReturn: a log that cannot be started is returned
\* as the error of the callback
callbackReturnLogErr(repo, ref) ==
    IF IsBranch(ref) /\ ~LogOf(repo, ref).logOK THEN "log failed" ELSE "nil"

\* what the callback of branches.ForEach returns, main.go:169, 181, 211: nil on
\* every path
callbackReturn(repo, ref) == "nil"

\* whether the callback traverses the commits of a reference, main.go:168-195
Traversed(repo, ref) == IsBranch(ref) /\ LogOf(repo, ref).logOK

\* one call of the callback by branches.ForEach, main.go:166-212; an error
\* returned by the callback ends ForEach and is returned at main.go:214-216
prCallback ==
    /\ prPc = "foreach"
    /\ prIdx <= Len(prRepo.refs)
    /\ LET ref == prRepo.refs[prIdx]
       IN  /\ prResults' = prResults \o branchResults(prRepo, repoNameOf(prPath), ref)
           /\ prLogged' = prLogged \cup (IF Traversed(prRepo, ref) THEN {prIdx} ELSE {})
           /\ IF callbackReturn(prRepo, ref) # "nil"
              THEN /\ prOut' = Returned("failed to process branches", <<>>)
                   /\ prPc' = "returned"
                   /\ UNCHANGED prIdx
              ELSE /\ prIdx' = prIdx + 1
                   /\ UNCHANGED <<prPc, prOut>>
    /\ prUnchanged

\* the end of branches.ForEach and the return, main.go:214-218
prReturn ==
    /\ prPc = "foreach"
    /\ prIdx > Len(prRepo.refs)
    /\ prOut' = IF ~prRepo.iterOK
                THEN Returned("failed to process branches", <<>>)
                ELSE Returned("nil", prResults)
    /\ prPc' = "returned"
    /\ UNCHANGED <<prIdx, prResults, prLogged>>
    /\ prUnchanged

RepoNext == prOpen \/ prReferences \/ prCallback \/ prReturn

SpecRepo == RepoInit /\ [][RepoNext]_vars

PrReturned == prPc = "returned"

\* the steps return what the operator processRepo computes
PrStepsAgree == PrReturned => prOut = processRepo(prPath, prRepo)

\* the repository opens and its references can be enumerated to the end
PrUsable == prRepo.openOK /\ prRepo.refsOK /\ prRepo.iterOK

\* the number of commits of each date among the commits an iterator yielded
CountsOf(commits) ==
    [d \in {Format(commits[n]) : n \in DOMAIN commits} |->
        Cardinality({n \in DOMAIN commits : Format(commits[n]) = d})]

\* the histogram of the k-th reference: the counts of the commits its log yields
HistogramOf(k) ==
    RepoBranchCommits(repoNameOf(prPath), prRepo.refs[k].short,
                      CountsOf(LogOf(prRepo, prRepo.refs[k]).commits))

\* the k-th reference is a direct-hash branch whose log starts and yields a commit
CountedBranch(k) ==
    /\ IsBranch(prRepo.refs[k]) /\ prRepo.refs[k].type = "hash"
    /\ prRepo.refs[k].logOK /\ prRepo.refs[k].commits # <<>>

\* the k-th reference is a branch whose log cannot be started
LogFails(k) == IsBranch(prRepo.refs[k]) /\ ~LogOf(prRepo, prRepo.refs[k]).logOK

\* C16: when the commit traversal of a branch cannot be started, processRepo
\* skips that branch only: it returns without an error, no histogram is returned
\* for that branch, and the histograms of the other branches of the repository,
\* those enumerated before it and those enumerated after it, are returned.
C16_LogFailureSkipsBranch ==
    (PrReturned /\ PrUsable) =>
        \A k \in DOMAIN prRepo.refs :
            LogFails(k) =>
                /\ prOut.err = "nil"
                /\ \A h \in Range(prOut.infos) : h.BranchName # prRepo.refs[k].short
                /\ \A j \in DOMAIN prRepo.refs \ {k} :
                       CountedBranch(j) => HistogramOf(j) \in Range(prOut.infos)

\* processRepo returned the histograms of the branch before and of the branch
\* after the one whose log could not be started
C16_Witness ==
    /\ PrReturned /\ PrUsable
    /\ Len(prRepo.refs) = 3
    /\ CountedBranch(1) /\ LogFails(2) /\ CountedBranch(3)
    /\ prOut = Returned("nil", <<HistogramOf(1), HistogramOf(3)>>)

\* the traversal of the k-th reference, a direct-hash branch, is interrupted by
\* an iteration error or a panic after at least one commit was counted
Interrupted(k) ==
    /\ IsBranch(prRepo.refs[k]) /\ prRepo.refs[k].type = "hash"
    /\ prRepo.refs[k].logOK
    /\ prRepo.refs[k].stop \in {"error", "panic"}
    /\ Len(prRepo.refs[k].commits) >= 1

\* C17: when the traversal of a branch is interrupted, by an iteration error or
\* by a panic, after n >= 1 commits were counted, the histogram returned for the
\* branch holds exactly the counts of those n commits, processRepo does not fail,
\* and it goes on with the next branches.
C17_PartialCountsKept ==
    (PrReturned /\ PrUsable) =>
        \A k \in DOMAIN prRepo.refs :
            Interrupted(k) =>
                /\ prOut.err = "nil"
                /\ HistogramOf(k) \in Range(prOut.infos)
                /\ \A h \in Range(prOut.infos) :
                       h.BranchName = prRepo.refs[k].short => h = HistogramOf(k)
                /\ SumSeq([n \in DOMAIN SortStrings(DOMAIN HistogramOf(k).CommitsByDate) |->
                       HistogramOf(k).CommitsByDate[
                           SortStrings(DOMAIN HistogramOf(k).CommitsByDate)[n]]])
                   = Len(prRepo.refs[k].commits)
                /\ \A j \in DOMAIN prRepo.refs :
                       (j > k /\ CountedBranch(j)) => HistogramOf(j) \in Range(prOut.infos)

\* a traversal ended by an error after two commits, one ended by a panic after
\* one commit, then a branch traversed to the end: three histograms returned
C17_Witness ==
    /\ PrReturned /\ PrUsable
    /\ Len(prRepo.refs) = 3
    /\ Interrupted(1) /\ prRepo.refs[1].stop = "error" /\ Len(prRepo.refs[1].commits) = 2
    /\ Interrupted(2) /\ prRepo.refs[2].stop = "panic"
    /\ CountedBranch(3) /\ prRepo.refs[3].stop = "none"
    /\ prOut = Returned("nil", <<HistogramOf(1), HistogramOf(2), HistogramOf(3)>>)

\* C18 (as claimed): processRepo traverses, and returns a histogram for, only
\* references that are direct-hash references and named as branches: never a
\* tag, a remote-tracking reference or a symbolic reference, a symbolic
\* reference with a branch name included.
C18_OnlyHashBranches ==
    /\ \A k \in prLogged :
           prRepo.refs[k].type = "hash" /\ IsBranch(prRepo.refs[k])
    /\ \A h \in Range(prResults) \cup Range(prOut.infos) :
           \E k \in DOMAIN prRepo.refs :
               /\ prRepo.refs[k].short = h.BranchName
               /\ prRepo.refs[k].type = "hash" /\ IsBranch(prRepo.refs[k])

\* What holds: only references named as branches are traversed or get a
\* histogram, whatever their type.
PrOnlyBranchNamed ==
    /\ \A k \in prLogged : IsBranch(prRepo.refs[k])
    /\ \A h \in Range(prResults) \cup Range(prOut.infos) :
           \E k \in DOMAIN prRepo.refs :
               prRepo.refs[k].short = h.BranchName /\ IsBranch(prRepo.refs[k])

====
